---- MODULE Spec2Model ----
(***************************************************************************)
(* homework_bot: a polling agent that queries the Practicum homework       *)
(* status API, detects a change of the homework list and forwards a        *)
(* verdict, or an error report, to a Telegram chat.                        *)
(*                                                                         *)
(* Python values are tagged records [t |-> <type name>, v |-> <payload>].  *)
(* A str is a sequence of text fragments, concatenated with \o.  The       *)
(* Russian literals of the source are transliterated to ASCII; every       *)
(* literal keeps its own fragment, so two texts are equal here exactly     *)
(* when the Python strings are built from the same literals and values.    *)
(***************************************************************************)
EXTENDS Integers, Sequences, FiniteSets, TLC

VARIABLES
    pc,                   \* position of main: start, poll, sleep, exited, crashed
    PRACTICUM_TOKEN,      \* module globals read from the environment
    TELEGRAM_TOKEN,
    TELEGRAM_CHAT_ID,
    timestamp,            \* main's poll cursor
    last_error_homework,  \* main's dict {'last_error', 'last_homework'}
    reply,                \* what requests.get produced in the current iteration
    error,                \* exception raised in the current iteration's try block
    uncaught,             \* an exception is propagating out of main
    sent,                 \* bot.send_message calls of the current iteration
    before,               \* cursor and dict as they were when the iteration began
    slept,                \* time.sleep calls since the last status query
    prev,                 \* what the iteration before the current one did
    call,                 \* a function of the module called on its own, with its arguments
    result                \* what that call returned or raised

vars == <<pc, PRACTICUM_TOKEN, TELEGRAM_TOKEN, TELEGRAM_CHAT_ID, timestamp,
          last_error_homework, reply, error, uncaught, sent, before, slept, prev,
          call, result>>

\* Longest homework list the API returns in the model.
MaxLen == 2
\* Largest Unix time the clock and the server report in the model.
MaxTime == 1

RETRY_PERIOD == 600

HTTP_OK == 200

-----------------------------------------------------------------------------
(* Python values *)

PyNone == [t |-> "NoneType"]
PyStr(s) == [t |-> "str", v |-> s]
PyInt(n) == [t |-> "int", v |-> n]
PyList(l) == [t |-> "list", v |-> l]
PyDict(d) == [t |-> "dict", v |-> d]

\* bool(value)
Truthy(value) ==
    CASE value.t = "NoneType" -> FALSE
      [] value.t = "str" -> value.v # <<>>
      [] value.t = "int" -> value.v # 0
      [] value.t = "list" -> value.v # <<>>
      [] value.t = "dict" -> DOMAIN value.v # {}

\* str(value), as an f-string formats it
Format(value) ==
    CASE value.t = "NoneType" -> <<"None">>
      [] value.t = "str" -> value.v
      [] value.t = "int" -> <<ToString(value.v)>>

\* repr(value)
Repr(value) ==
    CASE value.t = "NoneType" -> <<"None">>
      [] value.t = "str" -> <<"'">> \o value.v \o <<"'">>
      [] value.t = "int" -> <<ToString(value.v)>>

\* dict.get(key): the value, or None when the key is absent
Get(dict, key) == IF key \in DOMAIN dict.v THEN dict.v[key] ELSE PyNone

\* all(iterable)
All(values) == \A i \in DOMAIN values : Truthy(values[i])

\* any(iterable): not what check_tokens calls
AnyOf(values) == \E i \in DOMAIN values : Truthy(values[i])

-----------------------------------------------------------------------------
(* Results of a call: a returned value or a raised exception *)

Return(value) == [ok |-> TRUE, value |-> value]
Raise(kind, args) == [ok |-> FALSE, exc |-> [kind |-> kind, args |-> args]]

\* str(error): KeyError shows the repr of its argument, the others the text
StrOfError(exc) ==
    IF exc.kind = "KeyError" THEN <<"'">> \o exc.args \o <<"'">> ELSE exc.args

-----------------------------------------------------------------------------
(* Module constants *)

ENDPOINT == <<"https://practicum.yandex.ru/api/user_api/homework_statuses/">>

\* str(HEADERS)
HEADERS == <<"{'Authorization': 'OAuth ">> \o Format(PRACTICUM_TOKEN) \o <<"'}">>

HOMEWORK_VERDICTS ==
    [approved |-> <<"Rabota proverena: revyueru vsyo ponravilos. Ura!">>,
     reviewing |-> <<"Rabota vzyata na proverku revyuerom.">>,
     rejected |-> <<"Rabota proverena: u revyuera est zamechaniya.">>]

\* homework_status in HOMEWORK_VERDICTS
IsVerdictKey(status) ==
    /\ status.t = "str"
    /\ Len(status.v) = 1
    /\ status.v[1] \in DOMAIN HOMEWORK_VERDICTS

-----------------------------------------------------------------------------
(* check_tokens *)

check_tokens_any == AnyOf(<<PRACTICUM_TOKEN, TELEGRAM_TOKEN, TELEGRAM_CHAT_ID>>)

check_tokens == All(<<PRACTICUM_TOKEN, TELEGRAM_TOKEN, TELEGRAM_CHAT_ID>>)

-----------------------------------------------------------------------------
(* send_message: one outbound call; botOk tells whether bot.send_message    *)
(* returns or raises.  calls is the list of outbound calls made.            *)

send_message_propagates(message, botOk) ==
    [calls |-> <<[message |-> message, ok |-> botOk]>>,
     res |-> IF botOk THEN Return(PyNone)
             ELSE Raise("TelegramError", <<"bot.send_message failed">>)]

send_message(message, botOk) ==
    [calls |-> <<[message |-> message, ok |-> botOk]>>,
     res |-> Return(PyNone)]

-----------------------------------------------------------------------------
(* get_api_answer *)

EndPointMessage(ts, cause) ==
    <<"Ne dostupen endopoint ">> \o ENDPOINT
    \o <<" so sleduyushchimi parametramiGET-zaprosa: ">> \o HEADERS
    \o <<" i vremennoi metkoi ">> \o Format(ts)
    \o <<".Tekst oshibki: ">> \o cause

\* get_api_answer without the test of line 76
get_api_answer_any_status(ts, rep) ==
    IF rep.kind = "raise"
    THEN Raise("EndPointUnavailable", EndPointMessage(ts, rep.cause))
    ELSE IF ~rep.body.json
    THEN Raise("ResponseFormatIsNotJson",
               <<"Otvet servera ne v formate json: ">> \o rep.body.cause)
    ELSE Return(rep.body.value)

get_api_answer(ts, rep) ==
    IF rep.kind = "raise"
    THEN Raise("EndPointUnavailable", EndPointMessage(ts, rep.cause))
    ELSE IF rep.status_code # HTTP_OK
    \* StatusIsNotEqualTo200 is raised without arguments: its text is empty
    THEN Raise("EndPointUnavailable", EndPointMessage(ts, <<>>))
    ELSE IF ~rep.body.json
    THEN Raise("ResponseFormatIsNotJson",
               <<"Otvet servera ne v formate json: ">> \o rep.body.cause)
    ELSE Return(rep.body.value)

-----------------------------------------------------------------------------
(* check_response *)

\* check_response raising one and the same TypeError at lines 103 and 115
check_response_one_text(response) ==
    IF response.t # "dict"
    THEN Raise("TypeError", <<"V otvete API ne obnaruzhen dict">>)
    ELSE IF "homeworks" \notin DOMAIN response.v
    THEN Raise("KeyNotFound", <<"V otvete ne obnaruzhen klyuch homeworks">>)
    ELSE IF response.v["homeworks"].t # "list"
    THEN Raise("TypeError", <<"V otvete API ne obnaruzhen dict">>)
    ELSE Return(response.v["homeworks"])

check_response(response) ==
    IF response.t # "dict"
    THEN Raise("TypeError", <<"V otvete API ne obnaruzhen dict">>)
    ELSE IF "homeworks" \notin DOMAIN response.v
    THEN Raise("KeyNotFound", <<"V otvete ne obnaruzhen klyuch homeworks">>)
    ELSE IF response.v["homeworks"].t # "list"
    THEN Raise("TypeError", <<"Tip klyucha homeworks ne list">>)
    ELSE Return(response.v["homeworks"])

-----------------------------------------------------------------------------
(* parse_status *)

parse_status(homework) ==
    IF "homework_name" \notin DOMAIN homework.v
    THEN Raise("KeyError",
               <<"Klyuch homework_name ne naiden v informatsii o domashnei rabote">>)
    ELSE LET homework_name == Get(homework, "homework_name")
             homework_status == Get(homework, "status")
         IN  IF ~IsVerdictKey(homework_status)
             THEN Raise("StatusUnknown",
                        <<"Neizvestnyi status domashnei raboty: ">>
                        \o Repr(homework_status))
             ELSE Return(PyStr(<<"Izmenilsya status proverki raboty \"">>
                               \o Format(homework_name) \o <<"\". ">>
                               \o HOMEWORK_VERDICTS[homework_status.v[1]]))

-----------------------------------------------------------------------------
(* main: one pass of the while loop *)

NoExc == PyNone

\* homework[0]
First(homework) ==
    IF Len(homework.v) = 0
    THEN Raise("IndexError", <<"list index out of range">>)
    ELSE Return(homework.v[1])

\* line 164 without its emptiness test
IsNewHomeworkNoEmptyTest(homework, last_homework) == homework # last_homework

\* line 164: the list is non-empty and differs from the stored list
IsNewHomework(homework, last_homework) ==
    Truthy(homework) /\ homework # last_homework

\* The try block with line 171 moved up, right after the query of line 159
TryBlockCursorFirst(ts, last_homework, rep, botOk) ==
    LET response == get_api_answer(ts, rep)
        failed(exc, calls) ==
            [exc |-> exc, calls |-> calls,
             last_homework |-> last_homework,
             timestamp |-> IF response.ok /\ response.value.t = "dict"
                           THEN Get(response.value, "timestamp") ELSE ts]
    IN  IF ~response.ok THEN failed(response.exc, <<>>)
        ELSE LET homework == check_response(response.value)
             IN  IF ~homework.ok THEN failed(homework.exc, <<>>)
                 ELSE IF IsNewHomework(homework.value, last_homework)
                 THEN LET first == First(homework.value)
                          message == IF first.ok THEN parse_status(first.value)
                                     ELSE first
                      IN  IF ~message.ok THEN failed(message.exc, <<>>)
                          ELSE LET s == send_message(message.value, botOk)
                               IN  IF ~s.res.ok THEN failed(s.res.exc, s.calls)
                                   ELSE [exc |-> NoExc, calls |-> s.calls,
                                         last_homework |-> homework.value,
                                         timestamp |-> Get(response.value, "timestamp")]
                 ELSE [exc |-> NoExc, calls |-> <<>>,
                       last_homework |-> last_homework,
                       timestamp |-> Get(response.value, "timestamp")]

\* The try block with line 170 run only after a send that went through
TryBlockKeepOnFailedSend(ts, last_homework, rep, botOk) ==
    LET failed(exc, calls) ==
            [exc |-> exc, calls |-> calls,
             last_homework |-> last_homework, timestamp |-> ts]
        response == get_api_answer(ts, rep)
    IN  IF ~response.ok THEN failed(response.exc, <<>>)
        ELSE LET homework == check_response(response.value)
             IN  IF ~homework.ok THEN failed(homework.exc, <<>>)
                 ELSE IF IsNewHomework(homework.value, last_homework)
                 THEN LET first == First(homework.value)
                          message == IF first.ok THEN parse_status(first.value)
                                     ELSE first
                      IN  IF ~message.ok THEN failed(message.exc, <<>>)
                          ELSE LET s == send_message(message.value, botOk)
                               IN  IF ~s.res.ok THEN failed(s.res.exc, s.calls)
                                   ELSE [exc |-> NoExc, calls |-> s.calls,
                                         last_homework |->
                                             IF s.calls[1].ok THEN homework.value
                                             ELSE last_homework,
                                         timestamp |-> Get(response.value, "timestamp")]
                 ELSE [exc |-> NoExc, calls |-> <<>>,
                       last_homework |-> last_homework,
                       timestamp |-> Get(response.value, "timestamp")]

\* The try block.  exc is the exception that left it (NoExc if none), calls
\* the outbound calls made, last_homework and timestamp the values the
\* block leaves in main's state.
TryBlock(ts, last_homework, rep, botOk) ==
    LET failed(exc, calls) ==
            [exc |-> exc, calls |-> calls,
             last_homework |-> last_homework, timestamp |-> ts]
        response == get_api_answer(ts, rep)
    IN  IF ~response.ok THEN failed(response.exc, <<>>)
        ELSE LET homework == check_response(response.value)
             IN  IF ~homework.ok THEN failed(homework.exc, <<>>)
                 ELSE IF IsNewHomework(homework.value, last_homework)
                 THEN LET first == First(homework.value)
                          message == IF first.ok THEN parse_status(first.value)
                                     ELSE first
                      IN  IF ~message.ok THEN failed(message.exc, <<>>)
                          ELSE LET s == send_message(message.value, botOk)
                               IN  IF ~s.res.ok THEN failed(s.res.exc, s.calls)
                                   ELSE [exc |-> NoExc, calls |-> s.calls,
                                         last_homework |-> homework.value,
                                         timestamp |-> Get(response.value, "timestamp")]
                 ELSE [exc |-> NoExc, calls |-> <<>>,
                       last_homework |-> last_homework,
                       timestamp |-> Get(response.value, "timestamp")]

\* except Exception: every exception kind raised in the try block derives
\* from Exception
CatchesOnlyOwn(exc) ==
    exc.kind \in {"EndPointUnavailable", "KeyNotFound", "StatusUnknown",
                  "ResponseFormatIsNotJson"}

Catches(exc) == TRUE

\* line 174: the text differs from the last reported one
IsNewErrorAlways(exc, last_error) == TRUE

IsNewError(exc, last_error) == PyStr(StrOfError(exc)) # last_error

\* line 178: the value stored as last_error
RecordedErrorNone(exc) == PyNone

RecordedError(exc) == PyStr(StrOfError(exc))

\* The except block.  exc is the exception that left it (NoExc if none).
ExceptBlock(exc, last_error, botOk) ==
    IF IsNewError(exc, last_error)
    THEN LET message == PyStr(<<"Sboi v rabote programmy: ">> \o StrOfError(exc))
             s == send_message(message, botOk)
         IN  IF ~s.res.ok
             THEN [exc |-> s.res.exc, calls |-> s.calls, last_error |-> last_error]
             ELSE [exc |-> NoExc, calls |-> s.calls,
                   last_error |-> RecordedError(exc)]
    ELSE [exc |-> NoExc, calls |-> <<>>, last_error |-> last_error]

\* The sleep placed at the end of the try block instead: skipped when the
\* block raised
FinallyOnSuccessOnly(raised) == IF raised = NoExc THEN "sleep" ELSE "poll"

\* finally: where control goes once try/except is left, whatever the try
\* block raised
Finally(raised) == "sleep"

-----------------------------------------------------------------------------
(* The environment: what the two collaborators and the process              *)
(* environment can hand to the program                                       *)

Times == 0 .. MaxTime

TokenValues == {PyNone, PyStr(<<>>), PyStr(<<"token">>)}

HwApproved ==
    PyDict([homework_name |-> PyStr(<<"proj1">>), status |-> PyStr(<<"approved">>)])
HwRejected ==
    PyDict([homework_name |-> PyStr(<<"proj1">>), status |-> PyStr(<<"rejected">>)])
HwLate ==
    PyDict([homework_name |-> PyStr(<<"proj1">>), status |-> PyStr(<<"late">>)])

Homeworks == {HwApproved, HwRejected, HwLate}

\* The lists the API returns: up to MaxLen records, each record once
HomeworkLists ==
    {l \in UNION {[1 .. n -> Homeworks] : n \in 0 .. MaxLen} :
        \A i, j \in DOMAIN l : i # j => l[i] # l[j]}

\* The 'homeworks' values a body carries: lists, and one value of another type
HomeworksValues ==
    {PyList(l) : l \in HomeworkLists} \cup {PyStr(<<"none">>)}

JsonDicts ==
    {PyDict([homeworks |-> h, timestamp |-> PyInt(t)]) :
        h \in HomeworksValues, t \in Times}
    \cup {PyDict([homeworks |-> h]) : h \in HomeworksValues}
    \cup {PyDict([timestamp |-> PyInt(t)]) : t \in Times}
    \cup {PyDict([code |-> PyStr(<<"not_authenticated">>)])}

JsonValues == JsonDicts \cup {PyList(<<>>)}

NotJsonBody == [json |-> FALSE, cause |-> <<"Expecting value">>]

Bodies == {[json |-> TRUE, value |-> v] : v \in JsonValues} \cup {NotJsonBody}

Replies ==
    {[kind |-> "raise", cause |-> <<"ConnectionError">>]}
    \cup {[kind |-> "response", status_code |-> HTTP_OK, body |-> b] : b \in Bodies}
    \cup {[kind |-> "response", status_code |-> 500, body |-> b] :
            b \in {NotJsonBody, [json |-> TRUE, value |-> PyList(<<>>)]}}

NoReply == [kind |-> "none"]

-----------------------------------------------------------------------------
(* State machine *)

NoBefore == [timestamp |-> PyNone, last_error |-> PyNone, last_homework |-> PyNone]

NoPrev == [unchanged |-> FALSE, calls |-> 0, homework |-> PyNone]

NoCall == [fn |-> "none"]

NoResult == [ok |-> FALSE]

\* The list check_response returns for a reply that passes get_api_answer
\* and check_response; PyNone for every other reply
PolledHomework(ts, rep) ==
    LET response == get_api_answer(ts, rep)
        homework == IF response.ok THEN check_response(response.value) ELSE response
    IN  IF homework.ok THEN homework.value ELSE PyNone

\* homework[0] of that list when it is non-empty; PyNone otherwise
FirstRecord(ts, rep) ==
    LET homework == PolledHomework(ts, rep)
    IN  IF Truthy(homework) THEN homework.v[1] ELSE PyNone

\* The record the last status notification was derived from
NotifiedRecord(last_homework) ==
    IF last_homework.t = "list" /\ Truthy(last_homework)
    THEN last_homework.v[1] ELSE PyNone

Init ==
    /\ pc = "start"
    /\ PRACTICUM_TOKEN \in TokenValues
    /\ TELEGRAM_TOKEN \in TokenValues
    /\ TELEGRAM_CHAT_ID \in TokenValues
    /\ timestamp = PyNone
    /\ last_error_homework = [last_error |-> PyNone, last_homework |-> PyNone]
    /\ reply = NoReply
    /\ error = NoExc
    /\ uncaught = FALSE
    /\ sent = <<>>
    /\ before = NoBefore
    /\ slept = <<>>
    /\ prev = NoPrev
    /\ call = NoCall
    /\ result = NoResult

\* lines 148-151: a configuration value is missing, sys.exit()
StartupExit ==
    /\ pc = "start"
    /\ ~check_tokens
    /\ pc' = "exited"
    /\ UNCHANGED <<PRACTICUM_TOKEN, TELEGRAM_TOKEN, TELEGRAM_CHAT_ID, timestamp,
                   last_error_homework, reply, error, uncaught, sent, before,
                   slept, prev, call, result>>

\* lines 153-158: the bot is built, the cursor is set to the current time
StartupEnter ==
    /\ pc = "start"
    /\ check_tokens
    /\ \E now \in Times : timestamp' = PyInt(now)
    /\ last_error_homework' = [last_error |-> PyNone, last_homework |-> PyNone]
    /\ pc' = "poll"
    /\ UNCHANGED <<PRACTICUM_TOKEN, TELEGRAM_TOKEN, TELEGRAM_CHAT_ID, reply, error,
                   uncaught, sent, before, slept, prev, call, result>>

\* lines 161-178: the status query, the try block and the except block, for
\* a reply rep of the status API and a bot whose send succeeds or not
Pass(rep, botOk) ==
    LET try == TryBlock(timestamp, last_error_homework.last_homework, rep, botOk)
        caught == try.exc # NoExc /\ Catches(try.exc)
        exc == IF caught
               THEN ExceptBlock(try.exc, last_error_homework.last_error, botOk)
               ELSE [exc |-> try.exc, calls |-> <<>>,
                     last_error |-> last_error_homework.last_error]
    IN  /\ error' = try.exc
        /\ uncaught' = (exc.exc # NoExc)
        /\ sent' = try.calls \o exc.calls
        /\ timestamp' = try.timestamp
        /\ last_error_homework' = [last_error |-> exc.last_error,
                                   last_homework |-> try.last_homework]
        /\ pc' = Finally(try.exc)
        /\ slept' = <<>>
        /\ UNCHANGED <<PRACTICUM_TOKEN, TELEGRAM_TOKEN, TELEGRAM_CHAT_ID, prev,
                       call, result>>

\* One pass, with the reply it got and the state it started from kept for
\* inspection
Poll ==
    /\ pc = "poll"
    /\ reply' \in Replies
    /\ before' = [timestamp |-> timestamp,
                  last_error |-> last_error_homework.last_error,
                  last_homework |-> last_error_homework.last_homework]
    /\ \E botOk \in BOOLEAN : Pass(reply', botOk)

\* lines 180-181: time.sleep(RETRY_PERIOD), then the next pass or, with an
\* exception propagating, the end of main.  The locals of the pass are dead
\* once the sleep returns: the next pass assigns each before reading it.
SleepBody ==
    /\ pc = "sleep"
    /\ slept' = Append(slept, RETRY_PERIOD)
    /\ pc' = IF uncaught THEN "crashed" ELSE "poll"
    /\ reply' = NoReply
    /\ error' = NoExc
    /\ sent' = <<>>
    /\ before' = NoBefore
    /\ UNCHANGED <<PRACTICUM_TOKEN, TELEGRAM_TOKEN, TELEGRAM_CHAT_ID, timestamp,
                   last_error_homework, uncaught, call, result>>

Sleep == SleepBody /\ UNCHANGED prev

\* The same step, keeping in prev what the pass that ends did: the list it
\* polled, whether the first record of that list was the record last
\* notified, and how many outbound calls it made.
SleepRecording ==
    /\ SleepBody
    /\ prev' = [unchanged |->
                    /\ FirstRecord(before.timestamp, reply) # PyNone
                    /\ FirstRecord(before.timestamp, reply)
                         = NotifiedRecord(before.last_homework),
                calls |-> Len(sent),
                homework |-> PolledHomework(before.timestamp, reply)]

Next == StartupExit \/ StartupEnter \/ Poll \/ Sleep

Spec == Init /\ [][Next]_vars

\* The two network calls and the sleep return: the pass and the sleep are
\* each taken once enabled.
FairSpec == Spec /\ WF_vars(Poll) /\ WF_vars(Sleep)

\* The loop with the record of the previous pass kept.
NextRecording == StartupExit \/ StartupEnter \/ Poll \/ SleepRecording

SpecRecording == Init /\ [][NextRecording]_vars

-----------------------------------------------------------------------------
(* The functions of the module called on their own: one call each of        *)
(* get_api_answer, check_response and parse_status, on arguments drawn      *)
(* from what the collaborators can hand over and from malformed values.     *)

HwReviewing ==
    PyDict([homework_name |-> PyStr(<<"proj1">>), status |-> PyStr(<<"reviewing">>)])
HwNoStatus ==
    PyDict([homework_name |-> PyStr(<<"proj1">>)])
HwNoName ==
    PyDict([status |-> PyStr(<<"approved">>)])
HwNoNameLate ==
    PyDict([status |-> PyStr(<<"late">>)])
HwOther ==
    PyDict([id |-> PyInt(1)])

\* The records parse_status is called on
ParseInputs ==
    Homeworks \cup {HwReviewing, HwNoStatus, HwNoName, HwNoNameLate, HwOther}

\* The values check_response is called on
CheckInputs == JsonValues \cup {PyNone, PyStr(<<"error">>), PyInt(0)}

\* The cursors get_api_answer is called with
Cursors == {PyInt(t) : t \in Times} \cup {PyNone}

Calls ==
    {[fn |-> "get_api_answer", timestamp |-> ts, rep |-> r] :
        ts \in Cursors, r \in Replies}
    \cup {[fn |-> "check_response", response |-> v] : v \in CheckInputs}
    \cup {[fn |-> "parse_status", homework |-> h] : h \in ParseInputs}

InitCalls ==
    /\ pc = "call"
    /\ PRACTICUM_TOKEN = PyStr(<<"token">>)
    /\ TELEGRAM_TOKEN = PyStr(<<"token">>)
    /\ TELEGRAM_CHAT_ID = PyStr(<<"token">>)
    /\ timestamp = PyNone
    /\ last_error_homework = [last_error |-> PyNone, last_homework |-> PyNone]
    /\ reply = NoReply
    /\ error = NoExc
    /\ uncaught = FALSE
    /\ sent = <<>>
    /\ before = NoBefore
    /\ slept = <<>>
    /\ prev = NoPrev
    /\ call \in Calls
    /\ result = NoResult

\* The call returns or raises; nothing else of the module's state is touched
Returns(res) ==
    /\ pc = "call"
    /\ result' = res
    /\ pc' = "returned"
    /\ UNCHANGED <<PRACTICUM_TOKEN, TELEGRAM_TOKEN, TELEGRAM_CHAT_ID, timestamp,
                   last_error_homework, reply, error, uncaught, sent, before,
                   slept, prev, call>>

CallGetApiAnswer ==
    /\ call.fn = "get_api_answer"
    /\ Returns(get_api_answer(call.timestamp, call.rep))

CallCheckResponse ==
    /\ call.fn = "check_response"
    /\ Returns(check_response(call.response))

CallParseStatus ==
    /\ call.fn = "parse_status"
    /\ Returns(parse_status(call.homework))

NextCalls == CallGetApiAnswer \/ CallCheckResponse \/ CallParseStatus

SpecCalls == InitCalls /\ [][NextCalls]_vars

-----------------------------------------------------------------------------
(* What a finished pass shows.  The predicates below read the state at      *)
(* pc = "sleep": the try/except of the pass has run, its sleep has not.     *)

PassDone == pc = "sleep"

\* The reply carried HTTP 200 and a JSON body
JsonReply ==
    /\ reply.kind = "response"
    /\ reply.status_code = HTTP_OK
    /\ reply.body.json

\* The reply passed get_api_answer and check_response
ValidReply ==
    /\ JsonReply
    /\ check_response(reply.body.value).ok

\* The 'homeworks' list of a valid reply
PolledList == reply.body.value.v["homeworks"]

\* The pass raised, and this is the text of what it raised
Raised == error # NoExc
ErrorText == PyStr(StrOfError(error))

\* The error path of the loop did what lines 174-178 say: one report when
\* the text is not the last reported one, none when it is, and the text is
\* the last reported one afterwards.
ReportedOnce ==
    /\ ~uncaught
    /\ last_error_homework.last_error = ErrorText
    /\ IF before.last_error = ErrorText
       THEN sent = <<>>
       ELSE /\ Len(sent) = 1
            /\ sent[1].message
                 = PyStr(<<"Sboi v rabote programmy: ">> \o StrOfError(error))

-----------------------------------------------------------------------------
\* C1: in a pass whose valid response has homeworks[0] equal to the record
\* last notified, whatever follows it in the list, bot.send_message is not
\* called.
C1_FirstUnchangedNoCall ==
    (/\ PassDone
     /\ ValidReply
     /\ Truthy(PolledList)
     /\ PolledList.v[1] = NotifiedRecord(before.last_homework))
    => sent = <<>>

\* C2: a JSON object without the key 'homeworks' makes check_response raise
\* KeyNotFound, and the loop reports that text once: the pass reports it
\* unless it is already the last reported text, and leaves it the last
\* reported text, so the same failure on the following passes is silent.
C2_MissingKeyReportedOnce ==
    (/\ PassDone
     /\ JsonReply
     /\ reply.body.value.t = "dict"
     /\ "homeworks" \notin DOMAIN reply.body.value.v)
    => /\ Raised
       /\ error = check_response(reply.body.value).exc
       /\ error.kind = "KeyNotFound"
       /\ ReportedOnce

\* C2 witness: the second of two passes that each got an object without
\* 'homeworks'; the second one sent nothing.
C2_Witness ==
    /\ PassDone
    /\ JsonReply
    /\ reply.body.value.t = "dict"
    /\ "homeworks" \notin DOMAIN reply.body.value.v
    /\ Raised
    /\ before.last_error = ErrorText
    /\ sent = <<>>

\* C3: a first record whose status is not a key of HOMEWORK_VERDICTS makes
\* parse_status raise StatusUnknown, and the loop reports that text once,
\* not once per pass.
C3_UnknownStatusReportedOnce ==
    (/\ PassDone
     /\ ValidReply
     /\ Truthy(PolledList)
     /\ "homework_name" \in DOMAIN PolledList.v[1].v
     /\ "status" \in DOMAIN PolledList.v[1].v
     /\ ~IsVerdictKey(PolledList.v[1].v["status"]))
    => /\ Raised
       /\ error.kind = "StatusUnknown"
       /\ error.args = <<"Neizvestnyi status domashnei raboty: ">>
                         \o Repr(PolledList.v[1].v["status"])
       /\ ReportedOnce

\* C3 witness: an unknown status polled again right after it was reported
C3_Witness ==
    /\ PassDone
    /\ ValidReply
    /\ Truthy(PolledList)
    /\ PolledList.v[1] = HwLate
    /\ Raised
    /\ before.last_error = ErrorText
    /\ sent = <<>>

\* C4: a status code other than 200 makes get_api_answer raise
\* EndPointUnavailable; the loop catches it, reports it once, sleeps
\* RETRY_PERIOD and is back at the status query with the cursor it had.
C4_Non200ReportedAndRetried ==
    [][(/\ PassDone
        /\ reply.kind = "response"
        /\ reply.status_code # HTTP_OK)
       => /\ Raised
          /\ error.kind = "EndPointUnavailable"
          /\ ReportedOnce
          /\ timestamp = before.timestamp
          /\ pc' = "poll"
          /\ slept' = <<RETRY_PERIOD>>
          /\ timestamp' = before.timestamp]_vars

\* C4 witness: HTTP 500 on a pass that had nothing reported before it, one
\* error report sent.
C4_Witness ==
    /\ PassDone
    /\ reply.kind = "response"
    /\ reply.status_code = 500
    /\ before.last_error = PyNone
    /\ Len(sent) = 1

\* C5: a valid response with an empty 'homeworks' list: no call to
\* bot.send_message, nothing raised, the error path not entered and the
\* last reported error left as it was.
C5_EmptyListSilent ==
    (/\ PassDone
     /\ ValidReply
     /\ ~Truthy(PolledList))
    => /\ sent = <<>>
       /\ ~Raised
       /\ ~uncaught
       /\ last_error_homework.last_error = before.last_error
       /\ last_error_homework.last_homework = before.last_homework

\* C5 witness: an empty list polled after a record was notified and an
\* error was reported
C5_Witness ==
    /\ PassDone
    /\ ValidReply
    /\ ~Truthy(PolledList)
    /\ before.last_error # PyNone
    /\ before.last_homework # PyNone

\* One of the three configuration values is None or ''
SomeTokenMissing ==
    \E token \in {PRACTICUM_TOKEN, TELEGRAM_TOKEN, TELEGRAM_CHAT_ID} :
        token = PyNone \/ token = PyStr(<<>>)

\* C6: with one of the three configuration values empty or absent, main
\* never enters the loop: no status query, no message, no sleep, and the
\* step it takes from the start is the exit.
C6_MissingTokenExitsBeforeLoop ==
    [][SomeTokenMissing
       => /\ pc \in {"start", "exited"}
          /\ pc' = "exited"
          /\ reply' = NoReply
          /\ sent' = <<>>
          /\ slept' = <<>>
          /\ timestamp' = PyNone]_vars

\* C6 witness: main has exited with the chat id alone missing
C6_Witness ==
    /\ pc = "exited"
    /\ Truthy(PRACTICUM_TOKEN)
    /\ Truthy(TELEGRAM_TOKEN)
    /\ TELEGRAM_CHAT_ID = PyStr(<<>>)

\* C7: when bot.send_message raises, send_message still returns: the pass
\* goes on as after a successful send (a status notification updates the
\* stored list and the cursor, an error report records its text), the
\* failure is not what the except block caught, and nothing propagates.
C7_SendFailureSwallowed ==
    (/\ PassDone
     /\ \E i \in DOMAIN sent : ~sent[i].ok)
    => /\ ~uncaught
       /\ Len(sent) = 1
       /\ IF Raised
          THEN /\ error.kind # "TelegramError"
               /\ last_error_homework.last_error = ErrorText
          ELSE /\ ValidReply
               /\ last_error_homework.last_homework = PolledList
               /\ timestamp = Get(reply.body.value, "timestamp")

\* C7 witness: a status notification whose outbound call failed
C7_Witness ==
    /\ PassDone
    /\ ~Raised
    /\ Len(sent) = 1
    /\ ~sent[1].ok

\* C8: every pass is followed by exactly one sleep of RETRY_PERIOD, whether
\* it raised or not: a status query leads to the sleep, with nothing slept
\* since the query, and the sleep leads back to the query.
C8_OneSleepPerPass ==
    [][/\ pc = "poll" => (pc' = "sleep" /\ slept' = <<>>)
       /\ pc = "sleep" => (pc' = "poll" /\ slept' = <<RETRY_PERIOD>>)]_vars

\* C8 witness: back at the status query, one sleep after a pass that raised
C8_Witness ==
    /\ pc = "poll"
    /\ slept = <<RETRY_PERIOD>>
    /\ last_error_homework.last_error # PyNone

\* C9: once in the loop, main stays in it: after every pass, whatever it
\* raised, the next status query is issued, and after every sleep the next
\* pass follows.
C9_LoopNeverEnds ==
    /\ (pc = "sleep") ~> (pc = "poll")
    /\ (pc = "poll") ~> (pc = "sleep")
    /\ [][(pc \in {"poll", "sleep"}) => (pc' \in {"poll", "sleep"})]_vars

\* C9 witness: a pass that raised a TypeError and whose error report failed
\* to be sent
C9_Witness ==
    /\ PassDone
    /\ Raised
    /\ error.kind = "TypeError"
    /\ Len(sent) = 1
    /\ ~sent[1].ok

\* C10: two consecutive passes that polled the same list, its first record
\* being the record last notified, make no call to bot.send_message,
\* neither of them.
C10_TwoUnchangedPollsSilent ==
    (/\ PassDone
     /\ prev.unchanged
     /\ ValidReply
     /\ Truthy(PolledList)
     /\ PolledList = prev.homework
     /\ PolledList.v[1] = NotifiedRecord(before.last_homework))
    => /\ prev.calls = 0
       /\ sent = <<>>

\* C11: inside the loop the cursor is always an integer, and no step makes
\* it smaller: it starts at the current time and a successful poll moves it
\* forward to the value the server reported.
C11_CursorIntegerNeverDecreases ==
    [][(pc = "poll")
        => (/\ timestamp'.t = "int"
            /\ (timestamp.t = "int" => timestamp'.v >= timestamp.v))]_vars

\* C12: a successful poll whose response carries no 'timestamp' leaves the
\* cursor at the value it had, so the next query is made from that value.
C12_AbsentTimestampKeepsCursor ==
    (/\ PassDone
     /\ ValidReply
     /\ ~Raised
     /\ "timestamp" \notin DOMAIN reply.body.value.v)
    => timestamp = before.timestamp

\* The texts handed to bot.send_message, in order
Messages(calls) == [i \in DOMAIN calls |-> calls[i].message]

\* The reply of the pass with its 'homeworks' list cut down to homeworks[0]
FirstOnlyReply ==
    [reply EXCEPT !.body.value.v.homeworks = PyList(<<PolledList.v[1]>>)]

\* C13: only homeworks[0] counts: a pass sends exactly what it would have
\* sent, from the same cursor and records, had the list held homeworks[0]
\* alone; the elements after it neither cause nor alter a notification.
C13_OnlyFirstRecordDecides ==
    (/\ PassDone
     /\ ValidReply
     /\ Truthy(PolledList)
     /\ ~Raised)
    => Messages(sent)
         = Messages(TryBlock(before.timestamp, before.last_homework,
                             FirstOnlyReply, TRUE).calls)

-----------------------------------------------------------------------------
(* What a returned call shows.                                              *)

Returned(fn) == pc = "returned" /\ call.fn = fn

\* The first of the three tests of check_response that the value fails
FailedCheck(response) ==
    IF response.t # "dict" THEN "shape"
    ELSE IF "homeworks" \notin DOMAIN response.v THEN "key"
    ELSE IF response.v["homeworks"].t # "list" THEN "type"
    ELSE "none"

\* C14 as stated: the three tests of check_response fail with three
\* different kinds of error, one per test, and a value that passes them all
\* comes back as its 'homeworks' list, unchanged.
C14_ThreeErrorKinds ==
    Returned("check_response")
    => IF FailedCheck(call.response) = "none"
       THEN result = Return(call.response.v["homeworks"])
       ELSE /\ ~result.ok
            /\ \A other \in CheckInputs :
                 (FailedCheck(other) \notin {"none", FailedCheck(call.response)})
                 => check_response(other).exc.kind # result.exc.kind

\* C14: the three tests of check_response are made in order and fail with
\* three different errors: TypeError for a value that is no dict,
\* KeyNotFound for a missing 'homeworks', TypeError again for a 'homeworks'
\* that is no list, the two TypeErrors differing in their text only; a value
\* that passes them all comes back as its 'homeworks' list, unchanged.
C14_ThreeDistinguishableErrors ==
    Returned("check_response")
    => IF FailedCheck(call.response) = "none"
       THEN result = Return(call.response.v["homeworks"])
       ELSE /\ ~result.ok
            /\ result.exc.kind
                 = IF FailedCheck(call.response) = "key"
                   THEN "KeyNotFound" ELSE "TypeError"
            /\ \A other \in CheckInputs :
                 (FailedCheck(other) \notin {"none", FailedCheck(call.response)})
                 => check_response(other).exc # result.exc

\* C14 witness: a 'homeworks' that is no list was turned down with TypeError
C14_Witness ==
    /\ Returned("check_response")
    /\ FailedCheck(call.response) = "type"
    /\ ~result.ok
    /\ result.exc.kind = "TypeError"

\* C15: parse_status raises the missing-field error, KeyError, on a record
\* that lacks 'homework_name' or lacks 'status', and raises StatusUnknown
\* only on a record that has a 'status' which is no key of
\* HOMEWORK_VERDICTS.
C15_MissingFieldBeforeUnknownStatus ==
    Returned("parse_status")
    => /\ ("homework_name" \notin DOMAIN call.homework.v
           \/ "status" \notin DOMAIN call.homework.v)
          => (~result.ok /\ result.exc.kind = "KeyError")
       /\ (~result.ok /\ result.exc.kind = "StatusUnknown")
          => /\ "status" \in DOMAIN call.homework.v
             /\ ~IsVerdictKey(call.homework.v["status"])

\* The way a reply makes get_api_answer fail: no response at all, a
\* response with a status other than 200, a body that is no JSON
FailureMode(rep) ==
    IF rep.kind = "raise" THEN "transport"
    ELSE IF rep.status_code # HTTP_OK THEN "status"
    ELSE IF ~rep.body.json THEN "format"
    ELSE "none"

\* C16 as stated: a status other than 200, a transport failure and a body
\* that is no JSON make get_api_answer raise three different kinds of
\* error; a 200 response with a JSON body comes back parsed.
C16_ThreeFailureKinds ==
    Returned("get_api_answer")
    => IF FailureMode(call.rep) = "none"
       THEN result = Return(call.rep.body.value)
       ELSE /\ ~result.ok
            /\ \A other \in Replies :
                 (FailureMode(other) \notin {"none", FailureMode(call.rep)})
                 => get_api_answer(call.timestamp, other).exc.kind
                      # result.exc.kind

\* C16: get_api_answer raises errors of two kinds: EndPointUnavailable both
\* for a transport failure and for a status other than 200, the text naming
\* the cursor and ending with the cause, which is empty for the status;
\* ResponseFormatIsNotJson for a 200 response whose body is no JSON.  A 200
\* response with a JSON body comes back parsed.
C16_TwoFailureKinds ==
    Returned("get_api_answer")
    => result =
         CASE FailureMode(call.rep) = "transport" ->
                Raise("EndPointUnavailable",
                      EndPointMessage(call.timestamp, call.rep.cause))
           [] FailureMode(call.rep) = "status" ->
                Raise("EndPointUnavailable",
                      EndPointMessage(call.timestamp, <<>>))
           [] FailureMode(call.rep) = "format" ->
                Raise("ResponseFormatIsNotJson",
                      <<"Otvet servera ne v formate json: ">>
                      \o call.rep.body.cause)
           [] OTHER -> Return(call.rep.body.value)

\* C16 witness: a 500 response was turned into EndPointUnavailable
C16_Witness ==
    /\ Returned("get_api_answer")
    /\ FailureMode(call.rep) = "status"
    /\ ~result.ok
    /\ result.exc.kind = "EndPointUnavailable"

\* C17: a pass makes one status query and calls bot.send_message at most
\* once: either with the verdict of homeworks[0], and then nothing was
\* raised, or with the report of the error that was raised, never both.
C17_OneQueryAtMostOneDispatch ==
    PassDone
    => /\ reply \in Replies
       /\ Len(sent) <= 1
       /\ sent # <<>>
          => IF Raised
             THEN sent[1].message
                    = PyStr(<<"Sboi v rabote programmy: ">> \o StrOfError(error))
             ELSE /\ ValidReply
                  /\ Truthy(PolledList)
                  /\ sent[1].message = parse_status(PolledList.v[1]).value

\* C17 witness: a pass that delivered a verdict and raised nothing
C17_Witness ==
    /\ PassDone
    /\ ~Raised
    /\ Len(sent) = 1
    /\ sent[1].ok
    /\ sent[1].message = parse_status(HwRejected).value

\* C18: a pass in which the query, the validation or the verdict raised
\* leaves the cursor and the last notified list as they were; of the loop's
\* state only the last reported error may have changed, so the next query
\* is made with the same cursor.
C18_FailedPassKeepsCursorAndRecord ==
    (/\ PassDone
     /\ Raised)
    => /\ timestamp = before.timestamp
       /\ last_error_homework.last_homework = before.last_homework
       /\ last_error_homework.last_error = ErrorText

\* C18 witness: a valid response that carried a new cursor and a first
\* record with an unknown status; the verdict raised, the cursor stayed
C18_Witness ==
    /\ PassDone
    /\ Raised
    /\ error.kind = "StatusUnknown"
    /\ "timestamp" \in DOMAIN reply.body.value.v
    /\ reply.body.value.v["timestamp"] # before.timestamp
    /\ timestamp = before.timestamp
    /\ before.last_homework # PyNone
    /\ last_error_homework.last_error # before.last_error

\* C19: the last reported error is changed by nothing except the report of
\* a different error.  A pass that raises nothing and the sleep leave it as
\* it is; a pass that raises the text last reported sends nothing, however
\* many passes without an error lie in between; a pass that raises another
\* text reports it once and makes it the last reported one.
C19_LastErrorOutlivesSuccess ==
    [][/\ (pc = "sleep") => (last_error_homework'.last_error
                               = last_error_homework.last_error)
       /\ (pc = "poll")
          => IF error' = NoExc
             THEN last_error_homework'.last_error
                    = last_error_homework.last_error
             ELSE IF PyStr(StrOfError(error')) = last_error_homework.last_error
             THEN /\ sent' = <<>>
                  /\ last_error_homework'.last_error
                       = last_error_homework.last_error
             ELSE /\ Len(sent') = 1
                  /\ sent'[1].message
                       = PyStr(<<"Sboi v rabote programmy: ">>
                               \o StrOfError(error'))
                  /\ last_error_homework'.last_error
                       = PyStr(StrOfError(error'))]_vars

\* C19 witness: an error reported earlier is raised again right after a
\* pass that delivered a verdict without an error, and nothing is sent
C19_Witness ==
    /\ PassDone
    /\ Raised
    /\ before.last_error = ErrorText
    /\ sent = <<>>
    /\ prev.calls = 1
    /\ Truthy(prev.homework)
    /\ before.last_homework = prev.homework

\* C20: once send_message has returned, the polled list becomes the last
\* notified one whether bot.send_message went through or failed; and a pass
\* that polls the list last notified sends nothing, so a verdict whose
\* delivery failed is not sent again while the API returns the same list.
C20_FailedSendNotRetried ==
    /\ (/\ PassDone
        /\ ~Raised
        /\ sent # <<>>)
       => /\ ValidReply
          /\ last_error_homework.last_homework = PolledList
    /\ (/\ PassDone
        /\ ValidReply
        /\ PolledList = before.last_homework)
       => /\ sent = <<>>
          /\ ~Raised
          /\ last_error_homework.last_homework = before.last_homework

\* C20 witness: the verdict of a changed list could not be delivered, and
\* the list was stored as the last notified one all the same
C20_Witness ==
    /\ PassDone
    /\ ~Raised
    /\ Len(sent) = 1
    /\ ~sent[1].ok
    /\ before.last_homework # PyNone
    /\ last_error_homework.last_homework = PolledList
    /\ last_error_homework.last_homework # before.last_homework

====
